---- MODULE Spec2Model ----
(***************************************************************************)
(* Model of the paginated, rate-limited, retrying arXiv client of          *)
(* nonebot_plugin_literature/arxivreq/client.py: BasicClient.rate_limiter, *)
(* Client.results / _results / _parse_feed / __try_parse_feed and          *)
(* AsyncClient.results / _aresults.                                        *)
(*                                                                         *)
(* Time is kept as ages: the age of the client's _last_request_dt and the  *)
(* age of the last issued request, both saturating at delay_seconds (the   *)
(* code only compares an age with delay_seconds and subtracts it from      *)
(* delay_seconds when it is smaller).                                      *)
(***************************************************************************)
EXTENDS Integers, Sequences, FiniteSets, TLC

\* ---------------------------------------------------------------- bounds
PageSize == 2
NumRetries == 1
DelaySeconds == 2
MaxTotal == 3

\* ------------------------------------------------------- Python's None
None == <<>>
Some(x) == <<x>>
Val(o) == o[1]

\* Python truthiness of an Optional[int]: None and 0 are falsy.
Truthy(o) == o # None /\ Val(o) # 0

Min(a, b) == IF a < b THEN a ELSE b

VARIABLES
    last_request_dt,  \* BasicClient._last_request_dt: None or Some(age)
    server,           \* the remote service: [total, page_len, no_id, first_total, later_total]
    search,           \* per invocation: [client, max_results, offset]
    gen,              \* per invocation: the frame of results()/_results()
    delivered,        \* per invocation: the values handed to the consumer
    error,            \* per invocation: None or Some(exception raised to the consumer)
    fetched,          \* per invocation: start of every page _parse_feed was called for
    attempts,         \* per invocation: requests issued for the current page
    outcomes,         \* per invocation: what the transport returned to each request for the current page
    since_issue,      \* None or Some(age of the last issued request)
    gaps              \* the ages of the previous request seen when a request was issued

vars == <<last_request_dt, server, search, gen, delivered, error, fetched,
          attempts, outcomes, since_issue, gaps>>

Invocations == DOMAIN search

\* ---------------------------------------------------------- configuration
page_size == PageSize
num_retries == NumRetries
delay_seconds == DelaySeconds

\* ------------------------------------------------------------- the server
\* A service holding `total` records 0..total-1 that answers a request for
\* start s with the page_len[s] >= 1 records from s on, declaring `total`.
\* The entries with an index in no_id come without an <id>; the first page
\* carries first_total as its opensearch:totalResults, pages after the first
\* declare later_total.
Absent == [field |-> "absent"]
Garbled == [field |-> "garbled"]
Number(n) == [field |-> "number", value |-> n]

Servers ==
    UNION { { [total |-> n, page_len |-> f, no_id |-> {},
               first_total |-> Number(n), later_total |-> n] :
                f \in { g \in [0 .. n - 1 -> 1 .. page_size] :
                          \A s \in 0 .. n - 1 : g[s] <= n - s } } :
            n \in 0 .. MaxTotal }

\* Services some of whose entries lack their identifier.
MalformedServers ==
    UNION { { [s EXCEPT !.no_id = m] : m \in (SUBSET (0 .. s.total - 1)) \ {{}} } :
            s \in Servers }

\* Services whose declared total changes after the first page.
DriftingServers ==
    UNION { { [s EXCEPT !.later_total = t] : t \in (0 .. MaxTotal + 1) \ {s.total} } :
            s \in Servers }

\* Services whose pages carry more entries than the declared total leaves.
OverfullServers ==
    UNION { { [s EXCEPT !.first_total = Number(d), !.later_total = d] :
                d \in 1 .. s.total - 1 } :
            s \in Servers }

\* Services whose feed has no usable opensearch:totalResults.
NoTotalServers ==
    UNION { { [s EXCEPT !.first_total = t] : t \in {Absent, Garbled} } :
            s \in {r \in Servers : r.total > 0} }

\* A feedparser entry: a dict that has the key `id` or lacks it.
Entry(n) == IF n \in server.no_id THEN [title |-> n] ELSE [id |-> n]

\* opensearch:totalResults of the feed that answers a request.
Declared(first_page) ==
    IF first_page THEN server.first_total ELSE Number(server.later_total)

ServedEntries(start) ==
    IF start < server.total
    THEN [k \in 1 .. server.page_len[start] |-> Entry(start + k - 1)]
    ELSE <<>>

\* What the transport may return for one GET: a connection error, a non-200
\* status, the service's page, or (for a page after the first) a page that
\* is transiently empty.
ConnectFailure == [connected |-> FALSE, status |-> 0, entries |-> <<>>, total |-> Absent]
HttpFailure == [connected |-> TRUE, status |-> 503, entries |-> <<>>, total |-> Absent]
Page(start, first_page) ==
    [connected |-> TRUE, status |-> 200, entries |-> ServedEntries(start),
     total |-> Declared(first_page)]
EmptyPage == [connected |-> TRUE, status |-> 200, entries |-> <<>>, total |-> Declared(FALSE)]

\* The transport's answer as the service's side sees it.
Kind(resp) ==
    IF ~resp.connected THEN "connect_error"
    ELSE IF resp.status # 200 THEN "http_error"
    ELSE IF resp.entries = <<>> THEN "empty"
    ELSE "page"

Responses(url, first_page) ==
    {ConnectFailure, HttpFailure, Page(url.start, first_page)}
        \cup (IF first_page THEN {} ELSE {EmptyPage})

\* ------------------------------------------------------- BasicClient
format_url(i, start, size) == [search |-> i, start |-> start, max_results |-> size]

\* (mutant) the limiter wakes one unit early.
to_sleep_short(last) ==
    IF last # None /\ Val(last) < delay_seconds - 1
    THEN delay_seconds - Val(last) - 1
    ELSE 0

\* rate_limiter: the suspension computed from the age of _last_request_dt.
to_sleep(last) ==
    IF last # None /\ Val(last) < delay_seconds
    THEN delay_seconds - Val(last)
    ELSE 0

\* ------------------------------------------------------- results()
\* (mutant) the limit forgets the offset.
LimitIgnoresOffset(max_results, offset) ==
    IF Truthy(max_results) THEN Some(Val(max_results)) ELSE None

Limit(max_results, offset) ==
    IF Truthy(max_results) THEN Some(Val(max_results) - offset) ELSE None

\* Client.results: `if limit and limit < 0: return iter(())`
SyncEmptyIter(limit) == Truthy(limit) /\ Val(limit) < 0

\* AsyncClient.results: `if limit is not None and limit <= 0: return`
AsyncReturnsAtOnce(limit) == limit # None /\ Val(limit) <= 0

\* (mutant) islice stops one item late.
IsliceExhaustedLate(limit, count) == limit # None /\ count > Val(limit)

\* itertools.islice(it, limit): exhausted once `limit` items were passed on.
IsliceExhausted(limit, count) == limit # None /\ count >= Val(limit)

\* `yield Result._from_feed_entry`: the value the generator hands out for an
\* entry is the function object itself, not the function applied to the entry.
from_feed_entry == [function |-> "Result._from_feed_entry"]
MissingFieldError == [type |-> "MissingFieldError", missing_field |-> "id"]
Result(entry) ==
    IF "id" \in DOMAIN entry THEN [entry_id |-> entry.id] ELSE MissingFieldError
Yielded(entry) == from_feed_entry

\* Only Client defines _parse_feed; AsyncClient._aresults calls
\* self._parse_feed, which neither AsyncClient nor BasicClient defines.
HasParseFeed(client) == client = "Client"

\* (mutant) one retry too many.
RetryInclusive(try_index) == try_index <= num_retries

\* (mutant) gives up one retry early.
RetryEarly(try_index) == try_index < num_retries - 1

\* _parse_feed: `if _try_index < self.num_retries` decides between a retry
\* and re-raising.
Retry(try_index) == try_index < num_retries

\* httpx.ConnectError as raised by self._session.get(url): it refers to the
\* request (and so to its URL) and has no `retry`.
ConnectError(url) == [type |-> "ConnectError", url |-> url]

\* (mutant) an empty page after the first is accepted.
RaisedNoEmptyCheck(url, first_page, try_index, resp) ==
    IF ~resp.connected
    THEN Some(ConnectError(url))
    ELSE IF resp.status # 200
    THEN Some([type |-> "HTTPError", url |-> url, retry |-> try_index, status |-> resp.status])
    ELSE None

\* (mutant) an empty first page is an error too.
RaisedOnAnyEmpty(url, first_page, try_index, resp) ==
    IF ~resp.connected
    THEN Some(ConnectError(url))
    ELSE IF resp.status # 200
    THEN Some([type |-> "HTTPError", url |-> url, retry |-> try_index, status |-> resp.status])
    ELSE IF Len(resp.entries) = 0
    THEN Some([type |-> "UnexpectedEmptyPageError", url |-> url, retry |-> try_index])
    ELSE None

\* __try_parse_feed after the GET returned: the exception it raises, if any.
Raised(url, first_page, try_index, resp) ==
    IF ~resp.connected
    THEN Some(ConnectError(url))
    ELSE IF resp.status # 200
    THEN Some([type |-> "HTTPError", url |-> url, retry |-> try_index, status |-> resp.status])
    ELSE IF Len(resp.entries) = 0 /\ ~first_page
    THEN Some([type |-> "UnexpectedEmptyPageError", url |-> url, retry |-> try_index])
    ELSE None

\* (mutant) the retry forgets the first-page flag and falls back to its default.
AgainDefaultFirstPage(g) ==
    [g EXCEPT !.pc = "acquire", !.try_index = @ + 1, !.first_page = TRUE]

\* _parse_feed's retry:
\* `return self._parse_feed(url, first_page=first_page, _try_index=_try_index + 1)`
Again(g) == [g EXCEPT !.pc = "acquire", !.try_index = @ + 1]

\* (mutant) total_results is read again from every page.
TotalOfEveryPage(g, resp) ==
    IF resp.entries # <<>> /\ resp.total.field = "number"
    THEN resp.total.value ELSE g.total_results

\* _results: `total_results = int(feed.feed.opensearch_totalresults)` runs
\* once, after a first page that has entries.
TotalResults(g, resp) ==
    IF g.first_page /\ resp.entries # <<>> /\ resp.total.field = "number"
    THEN resp.total.value ELSE g.total_results

\* The same statement when the feed has no such attribute (FeedParserDict
\* raises AttributeError) or its text is not a number (int raises ValueError).
TotalRaises(g, resp) ==
    IF g.first_page /\ resp.entries # <<>> /\ resp.total.field # "number"
    THEN Some([type |-> IF resp.total.field = "absent"
                        THEN "AttributeError" ELSE "ValueError"])
    ELSE None

\* ------------------------------------------------------------------ Init
NewFrame ==
    [pc |-> "new", limit |-> None, offset |-> 0, total_results |-> 0,
     entries |-> <<>>, pos |-> 0, url |-> format_url(0, 0, 0),
     first_page |-> TRUE, try_index |-> 0, to_sleep |-> 0, stamps |-> 0]

Searches ==
    [client : {"Client", "AsyncClient"},
     max_results : {None} \cup {Some(k) : k \in -1 .. MaxTotal},
     offset : 0 .. MaxTotal - 1]

InitOn(invs, servers, searches) ==
    /\ last_request_dt = None
    /\ server \in servers
    /\ search \in [invs -> searches]
    /\ gen = [i \in invs |-> NewFrame]
    /\ delivered = [i \in invs |-> <<>>]
    /\ error = [i \in invs |-> None]
    /\ fetched = [i \in invs |-> <<>>]
    /\ attempts = [i \in invs |-> 0]
    /\ outcomes = [i \in invs |-> <<>>]
    /\ since_issue = None
    /\ gaps = {}

InitWith(invs) == InitOn(invs, Servers, Searches)

Init == InitWith({1})

\* --------------------------------------------------------------- actions
\* (mutant) the invocations of a client share one offset counter.
AdvanceSharedOffset(i, g) ==
    IF g.pos < Len(g.entries)
    THEN [g EXCEPT !.pos = @ + 1, !.pc = "yielded"]
    ELSE LET top == CHOOSE o \in {gen[j].offset : j \in Invocations} :
                        \A j \in Invocations : gen[j].offset <= o
             off == top + Len(g.entries) IN
         IF off >= g.total_results
         THEN [g EXCEPT !.offset = off, !.pc = "done"]
         ELSE [g EXCEPT !.offset = off, !.pc = "acquire",
                        !.url = format_url(i, off, page_size),
                        !.first_page = FALSE, !.try_index = 0]

\* (mutant) the offset advances by page_size, not by the page's length.
AdvanceByPageSize(i, g) ==
    IF g.pos < Len(g.entries)
    THEN [g EXCEPT !.pos = @ + 1, !.pc = "yielded"]
    ELSE LET off == g.offset + page_size IN
         IF off >= g.total_results
         THEN [g EXCEPT !.offset = off, !.pc = "done"]
         ELSE [g EXCEPT !.offset = off, !.pc = "acquire",
                        !.url = format_url(i, off, page_size),
                        !.first_page = FALSE, !.try_index = 0]

\* (mutant) the loop only stops when the offset is past the total.
AdvanceBreakLate(i, g) ==
    IF g.pos < Len(g.entries)
    THEN [g EXCEPT !.pos = @ + 1, !.pc = "yielded"]
    ELSE LET off == g.offset + Len(g.entries) IN
         IF off > g.total_results
         THEN [g EXCEPT !.offset = off, !.pc = "done"]
         ELSE [g EXCEPT !.offset = off, !.pc = "acquire",
                        !.url = format_url(i, off, page_size),
                        !.first_page = FALSE, !.try_index = 0]

\* (mutant) the next page is fetched in place of yielding the page's last entry.
AdvanceSkipLast(i, g) ==
    IF g.pos + 1 < Len(g.entries)
    THEN [g EXCEPT !.pos = @ + 1, !.pc = "yielded"]
    ELSE LET off == g.offset + Len(g.entries) IN
         IF off >= g.total_results
         THEN [g EXCEPT !.offset = off, !.pc = "done"]
         ELSE [g EXCEPT !.offset = off, !.pc = "acquire",
                        !.url = format_url(i, off, page_size),
                        !.first_page = FALSE, !.try_index = 0]

\* _results / _aresults resumed inside a page: the next entry of the page,
\* or `offset += len(feed.entries)` and either `break` or the next page.
Advance(i, g) ==
    IF g.pos < Len(g.entries)
    THEN [g EXCEPT !.pos = @ + 1, !.pc = "yielded"]
    ELSE LET off == g.offset + Len(g.entries) IN
         IF off >= g.total_results
         THEN [g EXCEPT !.offset = off, !.pc = "done"]
         ELSE [g EXCEPT !.offset = off, !.pc = "acquire",
                        !.url = format_url(i, off, page_size),
                        !.first_page = FALSE, !.try_index = 0]

\* The wrapper around the generator. Client.results: islice passes the item
\* on. AsyncClient.results: `if limit is not None and count >= limit: break`
\* is tested on the item already taken from _aresults.
PassOn(i, g) ==
    IF g.pc = "yielded" /\ search[i].client = "AsyncClient"
                        /\ g.limit # None /\ Len(delivered[i]) >= Val(g.limit)
    THEN [g EXCEPT !.pc = "done"]
    ELSE g

Handed(i, g) ==
    IF g.pc = "yielded"
    THEN Append(delivered[i], Yielded(g.entries[g.pos]))
    ELSE delivered[i]

\* results(search, offset) is called on the client.
Results(i) ==
    /\ gen[i].pc = "new"
    /\ LET lim == Limit(search[i].max_results, search[i].offset) IN
       gen' = [gen EXCEPT ![i] =
                 [@ EXCEPT !.offset = search[i].offset,
                           !.limit = lim,
                           !.pc = IF search[i].client = "Client" /\ SyncEmptyIter(lim)
                                  THEN "empty_iter" ELSE "ready"]]
    /\ UNCHANGED <<last_request_dt, server, search, delivered, error, fetched,
                   attempts, outcomes, since_issue, gaps>>

\* The consumer asks for the next item.
Pull(i) ==
    /\ gen[i].pc \in {"empty_iter", "ready", "yielded"}
    /\ LET g == gen[i]
           sync == search[i].client = "Client"
           stop == \/ g.pc = "empty_iter"
                   \/ sync /\ IsliceExhausted(g.limit, Len(delivered[i]))
                   \/ ~sync /\ g.pc = "ready" /\ AsyncReturnsAtOnce(g.limit)
           start == [g EXCEPT !.pc = "acquire",
                              !.url = format_url(i, g.offset, page_size),
                              !.first_page = TRUE, !.try_index = 0]
           g1 == IF stop THEN [g EXCEPT !.pc = "done"]
                 ELSE IF g.pc = "ready"
                 THEN IF HasParseFeed(search[i].client) THEN start
                      ELSE [g EXCEPT !.pc = "failed",
                                     !.url = format_url(i, g.offset, page_size)]
                 ELSE Advance(i, g)
           g2 == PassOn(i, g1)
       IN  /\ gen' = [gen EXCEPT ![i] = g2]
           /\ delivered' = [delivered EXCEPT ![i] = Handed(i, g2)]
           /\ error' = [error EXCEPT ![i] =
                          IF g2.pc = "failed" THEN Some([type |-> "AttributeError"]) ELSE @]
           /\ fetched' = [fetched EXCEPT ![i] =
                            IF g2.pc = "acquire" THEN Append(@, g2.url.start) ELSE @]
           /\ attempts' = [attempts EXCEPT ![i] = IF g2.pc = "acquire" THEN 0 ELSE @]
           /\ outcomes' = [outcomes EXCEPT ![i] = IF g2.pc = "acquire" THEN <<>> ELSE @]
    /\ UNCHANGED <<last_request_dt, server, search, since_issue, gaps>>

\* rate_limiter.sync_wrapper up to time.sleep(to_sleep).
RateLimiter(i) ==
    /\ gen[i].pc = "acquire"
    /\ gen' = [gen EXCEPT ![i] =
                 [@ EXCEPT !.pc = "sleeping", !.to_sleep = to_sleep(last_request_dt),
                           !.stamps = 0]]
    /\ UNCHANGED <<last_request_dt, server, search, delivered, error, fetched,
                   attempts, outcomes, since_issue, gaps>>

\* The sleep is over: `self._last_request_dt = datetime.now()` and the call of
\* __try_parse_feed, which issues the GET.
Request(i) ==
    /\ gen[i].pc = "sleeping"
    /\ gen[i].to_sleep = 0
    /\ gen' = [gen EXCEPT ![i] = [@ EXCEPT !.pc = "inflight", !.stamps = @ + 1]]
    /\ last_request_dt' = Some(0)
    /\ since_issue' = Some(0)
    /\ gaps' = IF since_issue = None THEN gaps ELSE gaps \cup {Val(since_issue)}
    /\ attempts' = [attempts EXCEPT ![i] = @ + 1]
    /\ UNCHANGED <<server, search, delivered, error, fetched, outcomes>>

\* The GET returns or raises; __try_parse_feed, _parse_feed and the generator
\* run on to the next yield, return or raise.
Response(i) ==
    /\ gen[i].pc = "inflight"
    /\ \E resp \in Responses(gen[i].url, gen[i].first_page) :
         LET g == gen[i]
             err == Raised(g.url, g.first_page, g.try_index, resp)
             got == [g EXCEPT !.entries = resp.entries, !.pos = 0,
                              !.total_results = TotalResults(g, resp)]
             bad == IF err # None THEN None ELSE TotalRaises(g, resp)
             g1 == IF err # None
                   THEN IF Retry(g.try_index)
                        THEN Again(g)
                        ELSE [g EXCEPT !.pc = "failed"]
                   ELSE IF Len(resp.entries) = 0
                        THEN [got EXCEPT !.pc = "done"]
                        ELSE IF bad # None
                        THEN [got EXCEPT !.pc = "failed"]
                        ELSE Advance(i, got)
             g2 == PassOn(i, g1)
         IN  /\ gen' = [gen EXCEPT ![i] =
                          [g2 EXCEPT !.stamps = IF resp.connected THEN @ + 1 ELSE @]]
             /\ last_request_dt' = IF resp.connected THEN Some(0) ELSE last_request_dt
             /\ delivered' = [delivered EXCEPT ![i] = Handed(i, g2)]
             /\ error' = [error EXCEPT ![i] =
                            IF g2.pc # "failed" THEN @
                            ELSE IF err # None THEN err ELSE bad]
             /\ outcomes' = [outcomes EXCEPT ![i] = Append(@, Kind(resp))]
    /\ UNCHANGED <<server, search, fetched, attempts, since_issue, gaps>>

\* One unit of time passes.
Older(t) == IF t = None THEN None ELSE Some(Min(Val(t) + 1, delay_seconds))

Tick ==
    /\ last_request_dt' = Older(last_request_dt)
    /\ since_issue' = Older(since_issue)
    /\ gen' = [i \in Invocations |->
                 IF gen[i].pc = "sleeping" /\ gen[i].to_sleep > 0
                 THEN [gen[i] EXCEPT !.to_sleep = @ - 1]
                 ELSE gen[i]]
    /\ UNCHANGED <<server, search, delivered, error, fetched, attempts,
                   outcomes, gaps>>

Next ==
    \/ \E i \in Invocations : Results(i)
    \/ \E i \in Invocations : Pull(i)
    \/ \E i \in Invocations : RateLimiter(i)
    \/ \E i \in Invocations : Request(i)
    \/ \E i \in Invocations : Response(i)
    \/ Tick

Spec == Init /\ [][Next]_vars

\* Every GET returns, every sleep ends, and the consumer keeps pulling.
Fairness ==
    /\ WF_vars(Tick)
    /\ \A i \in {1} :
          /\ WF_vars(Results(i))
          /\ WF_vars(Pull(i))
          /\ WF_vars(RateLimiter(i))
          /\ WF_vars(Request(i))
          /\ WF_vars(Response(i))

SpecLive == Init /\ [][Next]_vars /\ Fairness

\* Two invocations of Client.results consumed by two threads on one client.
ConcurrentSearches ==
    [client : {"Client"}, max_results : {None}, offset : {0}]

InitConcurrent == InitOn({1, 2}, Servers, ConcurrentSearches)

SpecConcurrent == InitConcurrent /\ [][Next]_vars

\* One invocation of Client.results from offset 0.
PlainSearches ==
    [client : {"Client"},
     max_results : {None} \cup {Some(k) : k \in 1 .. MaxTotal},
     offset : {0}]

\* The service serves entries without an identifier.
InitMalformed == InitOn({1}, MalformedServers, PlainSearches)

SpecMalformed == InitMalformed /\ [][Next]_vars

\* Two invocations of Client.results with their own offsets and caps,
\* consumed in any interleaving, on a service of two pages of one record.
PairSearches ==
    {[client |-> "Client", max_results |-> None, offset |-> 0],
     [client |-> "Client", max_results |-> Some(2), offset |-> 1]}

PairServers == {s \in Servers : s.total = 2 /\ \A k \in DOMAIN s.page_len : s.page_len[k] = 1}

InitPair ==
    /\ InitOn({1, 2}, PairServers, PairSearches)
    /\ search[1].offset = 0
    /\ search[2].offset = 1

SpecPair == InitPair /\ [][Next]_vars

\* The same search run once on a Client and once on an AsyncClient.
InitBoth ==
    /\ InitOn({1, 2}, Servers, Searches)
    /\ search[1].client = "Client"
    /\ search[2] = [search[1] EXCEPT !.client = "AsyncClient"]

SpecBoth == InitBoth /\ [][Next]_vars

\* The service declares fewer results than its pages carry.
InitOverfull == InitOn({1}, OverfullServers, PlainSearches)

SpecOverfull == InitOverfull /\ [][Next]_vars

\* The service's first page has no usable total.
InitNoTotal == InitOn({1}, NoTotalServers, PlainSearches)

SpecNoTotal == InitNoTotal /\ [][Next]_vars

\* The service's declared total changes while the invocation runs.
InitDrifting == InitOn({1}, DriftingServers, PlainSearches)

SpecDrifting == InitDrifting /\ [][Next]_vars

TypeOK ==
    /\ \A i \in Invocations :
         gen[i].pc \in {"new", "empty_iter", "ready", "yielded", "acquire",
                        "sleeping", "inflight", "done", "failed"}
    /\ gaps \subseteq 0 .. delay_seconds

\* ---------------------------------------------------------------- claims
IsSync(i) == search[i].client = "Client"
IsAsync(i) == search[i].client = "AsyncClient"
Ended(i) == gen[i].pc \in {"done", "failed"}
Starts(i) == {fetched[i][k] : k \in 1 .. Len(fetched[i])}
Failure(i, k) ==
    \/ outcomes[i][k] \in {"connect_error", "http_error"}
    \/ outcomes[i][k] = "empty" /\ Len(fetched[i]) > 1

\* The records 0 .. n-1 of the service, decoded, in the service's order.
Records(from, to) == [k \in 1 .. to - from |-> Result(Entry(from + k - 1))]

\* C1: with no cap and offset 0, a Client.results invocation that ends
\* normally has delivered exactly the N records of the service, in order,
\* each once.
PaginationCoverage ==
    \A i \in Invocations :
        (IsSync(i) /\ search[i].max_results = None /\ search[i].offset = 0
            /\ gen[i].pc = "done")
        => delivered[i] = Records(0, server.total)

\* C2: with a cap K, 0 < K < N, and offset 0, Client.results never delivers
\* more than K items, has delivered exactly K when it ends normally, and
\* never asks for a page whose start is >= K.
CapEnforcedSync ==
    \A i \in Invocations :
        LET cap == search[i].max_results IN
        (IsSync(i) /\ cap # None /\ search[i].offset = 0
            /\ 0 < Val(cap) /\ Val(cap) < server.total)
        => /\ Len(delivered[i]) <= Val(cap)
           /\ \A s \in Starts(i) : s < Val(cap)
           /\ gen[i].pc = "done" => Len(delivered[i]) = Val(cap)

\* C2 happens: a capped search ended with the cap on a page boundary and
\* more records left on the service.
CapEnforcedSyncWitness ==
    \E i \in Invocations :
        /\ IsSync(i) /\ search[i].max_results = Some(2) /\ search[i].offset = 0
        /\ server.total > 2 /\ server.page_len[0] = 2
        /\ gen[i].pc = "done" /\ Len(delivered[i]) = 2 /\ fetched[i] = <<0>>

RateLimitSpacing ==
    Cardinality(Invocations) = 1 => \A g \in gaps : g >= DelaySeconds

\* C4 happens: a retry after a failed attempt and the first attempt for a
\* later page have both been issued.
RateLimitSpacingWitness ==
    \E i \in Invocations :
        /\ Len(fetched[i]) >= 2 /\ attempts[i] >= 2
        /\ gen[i].pc = "inflight" /\ Failure(i, 1)
        /\ gaps = {DelaySeconds}

\* C5 (as claimed): with two searches running concurrently on one client no
\* two requests of the combined stream are less than delay_seconds apart.
ConcurrentSpacing ==
    Cardinality(Invocations) > 1 => \A g \in gaps : g >= DelaySeconds

\* C6: a page gets at most num_retries + 1 attempts; a failed attempt with
\* index < num_retries is followed by the attempt with the next index, and
\* a failed attempt with index num_retries raises to the caller.
BoundedRetry ==
    \A i \in Invocations :
        LET n == Len(outcomes[i]) IN
        /\ attempts[i] <= NumRetries + 1
        /\ (n > 0 /\ Failure(i, n)) =>
             IF n - 1 < NumRetries
             THEN /\ gen[i].pc \in {"acquire", "sleeping", "inflight"}
                  /\ gen[i].try_index = n
                  /\ error[i] = None
             ELSE /\ gen[i].pc = "failed"
                  /\ error[i] # None
                  /\ attempts[i] = NumRetries + 1

\* C6 happens: a page used up its retries on non-200 answers.
BoundedRetryWitness ==
    \E i \in Invocations :
        /\ gen[i].pc = "failed" /\ attempts[i] = NumRetries + 1
        /\ Val(error[i]).type = "HTTPError"
        /\ \A k \in 1 .. NumRetries + 1 : outcomes[i][k] \in {"connect_error", "http_error"}

\* C7: an empty answer to a page after the first is retried like a transport
\* failure (same page, next attempt index, requests delay_seconds apart);
\* when a retry brings entries the cursor goes on with that page, and an
\* empty answer to the last allowed attempt raises the empty-page error.
EmptyLaterPageRetried ==
    \A i \in Invocations :
        LET n == Len(outcomes[i])
            start == fetched[i][Len(fetched[i])] IN
        (Len(fetched[i]) > 1 /\ n > 0) =>
            /\ outcomes[i][n] = "empty" =>
                 IF n <= NumRetries
                 THEN /\ gen[i].pc \in {"acquire", "sleeping", "inflight"}
                      /\ gen[i].try_index = n
                      /\ gen[i].url = format_url(i, start, page_size)
                      /\ error[i] = None
                 ELSE /\ gen[i].pc = "failed"
                      /\ Val(error[i]).type = "UnexpectedEmptyPageError"
            /\ (outcomes[i][n] = "page" /\ \E k \in 1 .. n - 1 : outcomes[i][k] = "empty") =>
                 /\ gen[i].pc \in {"yielded", "done"}
                 /\ gen[i].entries = ServedEntries(start)
                 /\ error[i] = None
            /\ \A g \in gaps : g >= DelaySeconds

\* C7 happens: a later page came back empty and then, on a retry, with entries.
EmptyLaterPageRetriedWitness ==
    \E i \in Invocations :
        LET n == Len(outcomes[i]) IN
        /\ Len(fetched[i]) > 1 /\ n >= 2
        /\ outcomes[i][1] = "empty" /\ outcomes[i][n] = "page"
        /\ gen[i].pc = "yielded" /\ gen[i].pos = 1

\* C8: once the first page is answered successfully with zero entries the
\* invocation has ended normally with nothing delivered, no error, and no
\* request beyond that answer.
EmptyFirstPage ==
    \A i \in Invocations :
        LET n == Len(outcomes[i]) IN
        (Len(fetched[i]) = 1 /\ n > 0 /\ outcomes[i][n] = "empty") =>
            /\ gen[i].pc = "done"
            /\ delivered[i] = <<>>
            /\ error[i] = None
            /\ attempts[i] = n

\* C8 happens: the only request of an invocation was answered with an empty page.
EmptyFirstPageWitness ==
    \E i \in Invocations :
        /\ outcomes[i] = <<"empty">> /\ fetched[i] = <<search[i].offset>>
        /\ gen[i].pc = "done"

\* What _results yields from `off` on when every request is answered with
\* the service's page.
RECURSIVE YieldsFrom(_)
YieldsFrom(off) ==
    LET es == ServedEntries(off) IN
    IF es = <<>> THEN <<>>
    ELSE [k \in 1 .. Len(es) |-> Yielded(es[k])]
            \o (IF off + Len(es) >= server.total THEN <<>> ELSE YieldsFrom(off + Len(es)))

\* What Client.results delivers in the run without failures.
FailureFree(i) ==
    LET all == YieldsFrom(search[i].offset)
        lim == Limit(search[i].max_results, search[i].offset) IN
    IF lim = None THEN all
    ELSE IF Val(lim) < 0 THEN <<>>
    ELSE SubSeq(all, 1, Min(Val(lim), Len(all)))

\* C9: Client.results raises a fetch error only after num_retries + 1
\* consecutive failed attempts for one page, and when it ends normally it has
\* delivered exactly what the run without failures delivers.
TransparentRecovery ==
    \A i \in Invocations :
        IsSync(i) =>
            /\ gen[i].pc = "failed" =>
                 /\ Len(outcomes[i]) = NumRetries + 1
                 /\ \A k \in 1 .. NumRetries + 1 : Failure(i, k)
            /\ gen[i].pc = "done" => delivered[i] = FailureFree(i)

\* C9 happens: the first page failed with a non-200 status num_retries times,
\* then succeeded, and the invocation ended normally with items delivered.
TransparentRecoveryWitness ==
    \E i \in Invocations :
        /\ IsSync(i) /\ gen[i].pc = "done" /\ Len(fetched[i]) = 1
        /\ Len(outcomes[i]) = NumRetries + 1
        /\ \A k \in 1 .. NumRetries : outcomes[i][k] = "http_error"
        /\ outcomes[i][NumRetries + 1] = "page"
        /\ delivered[i] # <<>>

\* C10 (as claimed): with max_results = 0 nothing is delivered and no page is
\* requested.
CapZeroEmpty ==
    \A i \in Invocations :
        search[i].max_results = Some(0) =>
            /\ delivered[i] = <<>>
            /\ fetched[i] = <<>>

\* C11: with a cap K >= 1 and an offset O >= K, results() of either client
\* delivers nothing, raises nothing and requests no page.
OffsetBeyondCap ==
    \A i \in Invocations :
        LET cap == search[i].max_results IN
        (cap # None /\ Val(cap) >= 1 /\ search[i].offset >= Val(cap)) =>
            /\ delivered[i] = <<>>
            /\ fetched[i] = <<>>
            /\ attempts[i] = 0
            /\ error[i] = None
            /\ gen[i].pc \in {"new", "empty_iter", "ready", "done"}

\* C11 happens: an invocation with offset > cap has ended.
OffsetBeyondCapWitness ==
    \E i \in Invocations :
        /\ search[i].max_results = Some(1) /\ search[i].offset = 2
        /\ IsSync(i) /\ gen[i].pc = "done"

\* C12 (as claimed): with no cap and an offset O < N a Client.results
\* invocation that ends normally asked for start = O first and has delivered
\* exactly the records O .. N-1, in order.
OffsetSkip ==
    \A i \in Invocations :
        (IsSync(i) /\ search[i].max_results = None
            /\ search[i].offset < server.total /\ gen[i].pc = "done")
        => /\ fetched[i][1] = search[i].offset
           /\ delivered[i] = Records(search[i].offset, server.total)

\* C15 (as claimed): results() with a negative cap ends in a configuration
\* error, before any request.
NegativeCapRejected ==
    \A i \in Invocations :
        LET cap == search[i].max_results IN
        (cap # None /\ Val(cap) < 0) =>
            /\ fetched[i] = <<>>
            /\ Ended(i) => (error[i] # None /\ Val(error[i]).type = "ConfigurationError")

Fetching(i) == gen[i].pc \in {"acquire", "sleeping", "inflight"}

\* C16: every request starts at the initial offset plus the number of entries
\* of the pages already processed (their actual lengths, short pages
\* included), retries too.
OffsetAdvances ==
    \A i \in Invocations :
        LET f == fetched[i] IN
        /\ Len(f) >= 1 => f[1] = search[i].offset
        /\ \A k \in 1 .. Len(f) - 1 : f[k + 1] = f[k] + Len(ServedEntries(f[k]))
        /\ Fetching(i) =>
             /\ gen[i].offset = f[Len(f)]
             /\ gen[i].url = format_url(i, f[Len(f)], page_size)

\* C16 happens: the request after a page shorter than page_size is in flight.
OffsetAdvancesWitness ==
    \E i \in Invocations :
        /\ Len(fetched[i]) >= 2 /\ gen[i].pc = "inflight"
        /\ Len(ServedEntries(fetched[i][1])) < page_size
        /\ fetched[i][2] = fetched[i][1] + 1

\* The page starts Client.results asks for when it is consumed to its end:
\* `room` is what islice still lets through (None: no cap).
RECURSIVE FetchesFrom(_, _)
FetchesFrom(start, room) ==
    LET n == Len(ServedEntries(start)) IN
    <<start>> \o
        (IF n = 0 \/ (room # None /\ n >= Val(room)) \/ start + n >= server.total
         THEN <<>>
         ELSE FetchesFrom(start + n, IF room = None THEN None ELSE Some(Val(room) - n)))

ExpectedFetches(i) ==
    LET lim == Limit(search[i].max_results, search[i].offset) IN
    IF lim # None /\ Val(lim) <= 0 THEN <<>> ELSE FetchesFrom(search[i].offset, lim)

\* C18: a page all of whose attempts succeed is requested once; once the
\* cursor has recorded total_results, no page it has asked for starts at or
\* beyond it; and an invocation consumed to its normal end has fetched
\* exactly the pages the consumer needed, one fetch each.
ExactPageFetches ==
    \A i \in Invocations :
        IsSync(i) =>
            /\ (\A k \in 1 .. Len(outcomes[i]) : ~Failure(i, k)) => attempts[i] <= 1
            /\ delivered[i] # <<>> => \A s \in Starts(i) : s < gen[i].total_results
            /\ gen[i].pc = "done" => fetched[i] = ExpectedFetches(i)

\* C18 happens: the cap equals the total and falls on the end of the second
\* page; the invocation ended after exactly two page fetches.
ExactPageFetchesWitness ==
    \E i \in Invocations :
        /\ IsSync(i) /\ gen[i].pc = "done" /\ search[i].offset = 0
        /\ search[i].max_results = Some(server.total)
        /\ Len(fetched[i]) = 2 /\ Len(delivered[i]) = server.total

\* C19 (as claimed): with a cap K and an offset 0 <= O < K a Client.results
\* invocation that ends normally has delivered exactly the records with
\* indices O .. min(K, N) - 1, in order.
CapWithOffset ==
    \A i \in Invocations :
        (IsSync(i) /\ search[i].max_results # None /\ gen[i].pc = "done"
            /\ search[i].offset < Val(search[i].max_results))
        => /\ gen[i].limit = Some(Val(search[i].max_results) - search[i].offset)
           /\ delivered[i] =
                  Records(search[i].offset, Min(Val(search[i].max_results), server.total))

\* C20: before the consumer's first pull no request has been issued; while a
\* page is being fetched the consumer has been handed every entry of the
\* pages before it; a page's fetch starts only in a step in which the
\* consumer asks for an item and is handed none; and a request is issued
\* only for the one page the invocation is waiting for.
LazyFetching ==
    /\ [](\A i \in Invocations :
            /\ gen[i].pc \in {"new", "ready", "empty_iter"}
                 => fetched[i] = <<>> /\ attempts[i] = 0
            /\ Fetching(i)
                 => /\ fetched[i] # <<>>
                    /\ gen[i].url.start = fetched[i][Len(fetched[i])]
                    /\ Len(delivered[i]) = gen[i].url.start - search[i].offset)
    /\ [][\A i \in Invocations :
            /\ fetched'[i] # fetched[i]
                 => /\ gen[i].pc \in {"ready", "yielded"}
                    /\ gen'[i].pc = "acquire"
                    /\ delivered'[i] = delivered[i]
                    /\ fetched'[i] = Append(fetched[i], gen[i].offset + Len(gen[i].entries))
            /\ attempts'[i] > attempts[i]
                 => gen[i].pc = "sleeping" /\ gen'[i].pc = "inflight"
            /\ gen[i].pc = "inflight" => attempts'[i] = attempts[i]]_vars

LazyFetchingWitness ==
    \E i \in Invocations :
        /\ IsSync(i) /\ gen[i].pc = "inflight"
        /\ Len(fetched[i]) = 2 /\ Len(delivered[i]) = page_size

\* C14 (as claimed): when a page's retries are exhausted the invocation ends
\* with the error, and what it has delivered is exactly the records of all
\* earlier pages, in order.
FailureAborts ==
    \A i \in Invocations :
        (IsSync(i) /\ gen[i].pc = "failed")
        => /\ error[i] # None
           /\ delivered[i] = Records(search[i].offset, gen[i].url.start)

\* The entries from..to-1 of the service that carry an identifier.
Valid(from, to) == {n \in from .. to - 1 : n \notin server.no_id}

\* C13 (as claimed): entries without an identifier are not handed out and do
\* not use up the cap: a Client.results invocation that ends normally has
\* delivered as many items as the service has valid entries, or as many as
\* the cap when it is smaller.
MalformedSkipped ==
    \A i \in Invocations :
        (IsSync(i) /\ gen[i].pc = "done")
        => Len(delivered[i]) =
               LET valid == Cardinality(Valid(search[i].offset, server.total)) IN
               IF search[i].max_results = None THEN valid
               ELSE Min(Val(search[i].max_results), valid)

\* C17: once the first page is in, the cursor's total_results is the total
\* that page declared, whatever later pages declare, and the invocation ends
\* after exactly the pages that total calls for.
TotalFixedByFirstPage ==
    \A i \in Invocations :
        IsSync(i) =>
            /\ delivered[i] # <<>> => gen[i].total_results = server.total
            /\ gen[i].pc = "done" => fetched[i] = ExpectedFetches(i)

TotalFixedByFirstPageWitness ==
    \E i \in Invocations :
        /\ IsSync(i) /\ gen[i].pc = "done" /\ search[i].max_results = None
        /\ Len(fetched[i]) >= 2
        /\ server.later_total # server.total
        /\ gen[i].total_results = server.total

\* C21: every invocation eventually ends (normally or with an error); the
\* cursor's offset never decreases, a fetch of a later page is always for a
\* start beyond the previous one, and an empty page after the first is never
\* taken as a page: the invocation retries or fails, its offset unchanged.
Termination ==
    /\ <>(\A i \in Invocations : Ended(i))
    /\ [][\A i \in Invocations :
            /\ gen'[i].offset >= gen[i].offset
            /\ (Len(fetched'[i]) > Len(fetched[i]) /\ fetched[i] # <<>>)
                 => fetched'[i][Len(fetched'[i])] > fetched[i][Len(fetched[i])]
            /\ (outcomes'[i] = Append(outcomes[i], "empty") /\ ~gen[i].first_page)
                 => /\ gen'[i].pc \in {"acquire", "failed"}
                    /\ gen'[i].offset = gen[i].offset]_vars

TerminationWitness ==
    \E i \in Invocations :
        /\ IsSync(i) /\ gen[i].pc = "done" /\ search[i].max_results = None
        /\ Len(fetched[i]) = 2 /\ gen[i].offset >= gen[i].total_results
        /\ Len(delivered[i]) > 0

\* C22 (as claimed): whatever the service sends, a Client.results invocation
\* never delivers more than the total its first page declared when no cap
\* is set, nor more than the cap when one is set.
BoundedLength ==
    \A i \in Invocations :
        (IsSync(i) /\ delivered[i] # <<>>)
        => Len(delivered[i]) <=
               IF search[i].max_results = None THEN gen[i].total_results
               ELSE Val(search[i].max_results)

\* C23 (as claimed): an attempt writes _last_request_dt exactly once, after
\* its suspension and before its request is issued, and the first attempt of
\* a fresh client is not suspended.
TimestampOnce ==
    \A i \in Invocations :
        /\ gen[i].stamps <= 1
        /\ gen[i].pc = "inflight" => gen[i].stamps = 1
        /\ (gen[i].pc = "sleeping" /\ since_issue = None) => gen[i].to_sleep = 0

\* C24 (as claimed): the error that ends an invocation whose retries are
\* exhausted carries the URL of the failing page, the attempt index
\* num_retries at which it gave up, and the status or the cause.
ErrorContent ==
    \A i \in Invocations :
        (IsSync(i) /\ gen[i].pc = "failed" /\ error[i] # None
            /\ Val(error[i]).type \in {"HTTPError", "ConnectError", "UnexpectedEmptyPageError"})
        => LET e == Val(error[i]) IN
           /\ "url" \in DOMAIN e /\ e.url = gen[i].url
           /\ "retry" \in DOMAIN e /\ e.retry = num_retries
           /\ e.type = "HTTPError" => e.status = 503

\* C25 (as claimed): when the non-empty first page has no usable
\* total-results field the total is taken as 0: the invocation raises
\* nothing for it, and ends normally after that one page.
MissingTotalTolerated ==
    \A i \in Invocations :
        (IsSync(i) /\ server.first_total.field # "number")
        => /\ error[i] # None
                => Val(error[i]).type \notin {"AttributeError", "ValueError"}
           /\ (delivered[i] # <<>> \/ gen[i].pc = "yielded")
                => gen[i].total_results = 0 /\ Len(fetched[i]) = 1

\* C26: two invocations on one client each deliver what they deliver when
\* run alone and fetch the pages they fetch when run alone; what an
\* invocation has delivered follows from its own offset and position; and a
\* step of one invocation changes nothing of the other.
Independence ==
    /\ [](\A i \in Invocations :
            /\ gen[i].pc = "done"
                 => delivered[i] = FailureFree(i) /\ fetched[i] = ExpectedFetches(i)
            /\ gen[i].pc = "yielded"
                 => Len(delivered[i]) = gen[i].offset - search[i].offset + gen[i].pos
            /\ Len(delivered[i]) <= Len(FailureFree(i))
            /\ delivered[i] = SubSeq(FailureFree(i), 1, Len(delivered[i])))
    /\ [][\A i, j \in Invocations :
            (i # j /\ gen'[i].pc # gen[i].pc)
            => /\ gen'[j] = gen[j] /\ delivered'[j] = delivered[j]
               /\ fetched'[j] = fetched[j] /\ error'[j] = error[j]]_vars

IndependenceWitness ==
    /\ Cardinality(Invocations) = 2
    /\ search[1].offset # search[2].offset
    /\ gen[1].pc = "done" /\ gen[2].pc = "yielded"
    /\ Len(delivered[1]) = 2 /\ Len(delivered[2]) = 1
    /\ Len(fetched[1]) = 2

\* C27: while a page is being fetched its URL is the one built from the
\* cursor's offset and page_size, the attempt index counts the answers so
\* far, and the first-page flag says whether it is the invocation's first
\* page; from one attempt to the next the URL, the flag, the offset,
\* total_results and what was delivered stay as they are, and the attempt
\* index goes up by one exactly when an attempt has failed.
RetryFrame ==
    /\ [](\A i \in Invocations :
            (IsSync(i) /\ Fetching(i))
            => /\ gen[i].url = format_url(i, gen[i].offset, page_size)
               /\ gen[i].try_index = Len(outcomes[i])
               /\ gen[i].first_page <=> Len(fetched[i]) = 1)
    /\ [][\A i \in Invocations :
            (IsSync(i) /\ Fetching(i) /\ gen'[i].pc \in {"acquire", "sleeping", "inflight"})
            => /\ gen'[i].url = gen[i].url
               /\ gen'[i].first_page = gen[i].first_page
               /\ gen'[i].offset = gen[i].offset
               /\ gen'[i].total_results = gen[i].total_results
               /\ gen'[i].entries = gen[i].entries /\ gen'[i].pos = gen[i].pos
               /\ delivered'[i] = delivered[i] /\ fetched'[i] = fetched[i]
               /\ gen'[i].try_index =
                      IF outcomes'[i] # outcomes[i] THEN gen[i].try_index + 1
                      ELSE gen[i].try_index]_vars

RetryFrameWitness ==
    \E i \in Invocations :
        /\ IsSync(i) /\ gen[i].pc = "inflight" /\ ~gen[i].first_page
        /\ gen[i].try_index = num_retries /\ num_retries > 0
        /\ Len(delivered[i]) > 0 /\ gen[i].offset > search[i].offset

\* C28 (as claimed): for the same search and offset on the same service,
\* when Client.results has ended normally and AsyncClient.results has ended,
\* the two have delivered the same sequence, asked for the same pages and
\* ended the same way.
ClientsAgree ==
    \A i, j \in Invocations :
        (IsSync(i) /\ IsAsync(j)
            /\ search[j] = [search[i] EXCEPT !.client = "AsyncClient"]
            /\ gen[i].pc = "done" /\ Ended(j))
        => /\ delivered[j] = delivered[i]
           /\ fetched[j] = fetched[i]
           /\ gen[j].pc = gen[i].pc
           /\ error[j] = error[i]

====
